---- MODULE Spec2Model ----
(***************************************************************************)
(* Elevator simulation: the timed action gate (Acting), the elevator       *)
(* dispatch engine and the passenger lifecycle engine, run by a fixed      *)
(* per-tick pipeline.                                                      *)
(*                                                                         *)
(* The repository holds two iterations of the core:                        *)
(*   "set" : setElevator / updateElevatorState (elevator.ts 30-177) with   *)
(*           managePassengerLifecycle / updatePassengerState of the        *)
(*           setPassenger module (unnamed/part_003);                       *)
(*   "obs" : the observer-based components (elevator.ts 294-592,           *)
(*           acting.ts, unnamed/part_004), where setComponent stores the   *)
(*           fields through an onSet observer and each elevator state has  *)
(*           its own system.                                               *)
(* The variable `variant` says which iteration a behaviour runs.           *)
(*                                                                         *)
(* Time is exact: completion is kept as the numerator of a fraction over   *)
(* the lock's duration, so floating point rounding is not modelled; the    *)
(* IEEE results of dividing by zero (Infinity, NaN) are.  Acting.start is  *)
(* written but never read by the core and is left out.                     *)
(***************************************************************************)
EXTENDS Integers, Sequences, FiniteSets, TLC

(* ------------------------------ bounds --------------------------------- *)
\* number of floors created at world seeding (indices 0..NumFloors-1)
NumFloors == 3
\* population cap used in place of the literal 100 of managePassengerLifecycle
MaxPassengers == 2
\* longest queue the observer iteration (no deduplication) is followed to
MaxQueue == 3
\* elevator ids the model has room for; seeding creates elevator 1 only, the
\* two-elevator specification adds elevator 2
MaxElevators == 2
\* a tick's delta is 0, DeltaStep or 2*DeltaStep milliseconds
DeltaStep == 500
\* the gate-only specification stops following a completion below -MaxBelow
MaxBelow == 2

(* ------------------------- program constants --------------------------- *)
\* duration: 1000 of every setActing / setComponent(..., Acting, ...) call
Duration == 1000

Floors == 0 .. (NumFloors - 1)
ElevatorIds == 1 .. MaxElevators
\* one id more than the cap allows to live at once
PassengerIds == 1 .. (MaxPassengers + 1)
Deltas == {0, DeltaStep, 2 * DeltaStep}

(* ----------------------------- entities -------------------------------- *)
\* relation targets are entities: a floor (by index) or an elevator (by id)
FloorEntity(i) == <<"floor", i>>
ElevatorEntity(e) == <<"elevator", e>>
\* what destructuring an empty target list yields
Undefined == <<"undefined", 0>>
\* const [x] = getRelationTargets(...)
FirstTarget(targets) == IF targets = <<>> THEN Undefined ELSE targets[1]
\* Floor.index[floorId]; undefined when floorId is no floor
NoIndex == -1
FloorIndex(t) == IF t[1] = "floor" THEN t[2] ELSE NoIndex
\* JavaScript comparisons with an undefined operand are false
JsGt(a, b) == a # NoIndex /\ b # NoIndex /\ a > b
JsLt(a, b) == a # NoIndex /\ b # NoIndex /\ a < b
\* queue[0]
QueueHead(q) == IF q = <<>> THEN NoIndex ELSE q[1]
\* a faulty variant of Slice1: the last entry is dropped (queue.slice(0, -1))
SliceLast(q) == IF q = <<>> THEN <<>> ELSE SubSeq(q, 1, Len(q) - 1)

\* queue.slice(1)
Slice1(q) == IF q = <<>> THEN <<>> ELSE Tail(q)

(* ------------------------------ Acting --------------------------------- *)
\* A lock: held (the component is attached), duration, and completion as the
\* value n / |duration| when kind = "num", Infinity when "inf", NaN when "nan".
NoLock == [held |-> FALSE, duration |-> 0, kind |-> "num", n |-> 0]

\* onAdd(Acting): duration 0, completion 0
onAddActing == [held |-> TRUE, duration |-> 0, kind |-> "num", n |-> 0]

\* onSet(Acting) / setActing: duration from the data, completion 0
setActing(duration) == [held |-> TRUE, duration |-> duration, kind |-> "num", n |-> 0]

\* a faulty variant of AddCompletion: completion -= delta / duration
AddCompletionBackward(lock, delta) ==
  IF lock.kind # "num" THEN lock
  ELSE IF lock.duration = 0
       THEN (IF delta = 0 THEN [lock EXCEPT !.kind = "nan", !.n = 0]
                          ELSE [lock EXCEPT !.kind = "inf", !.n = 0])
  ELSE IF lock.duration > 0 THEN [lock EXCEPT !.n = @ - delta]
  ELSE [lock EXCEPT !.n = @ + delta]

\* completion += delta / duration
AddCompletion(lock, delta) ==
  IF lock.kind # "num" THEN lock
  ELSE IF lock.duration = 0
       THEN (IF delta = 0 THEN [lock EXCEPT !.kind = "nan", !.n = 0]
                          ELSE [lock EXCEPT !.kind = "inf", !.n = 0])
  ELSE IF lock.duration > 0 THEN [lock EXCEPT !.n = @ + delta]
  ELSE [lock EXCEPT !.n = @ - delta]

\* completion >= 1
CompletionGe1(lock) ==
  CASE lock.kind = "inf" -> TRUE
    [] lock.kind = "nan" -> FALSE
    [] OTHER -> IF lock.duration > 0 THEN lock.n >= lock.duration
                ELSE IF lock.duration < 0 THEN lock.n >= -lock.duration
                ELSE FALSE

\* a faulty variant of advanceLock: the release test is completion > 1
advanceLockStrict(lock, delta) ==
  IF ~lock.held THEN lock
  ELSE LET next == AddCompletion(lock, delta)
       IN IF CompletionGe1(next) /\ ~(next.kind = "num" /\ next.n = next.duration)
          THEN NoLock ELSE next

\* one iteration of updateActingCompletion for one entity's slot
advanceLock(lock, delta) ==
  IF ~lock.held THEN lock
  ELSE LET next == AddCompletion(lock, delta)
       IN IF CompletionGe1(next) THEN NoLock ELSE next

(* ------------------------------ state ---------------------------------- *)
VARIABLES
  variant,      \* "set" or "obs": the iteration of the core that runs
  phase,        \* the system the tick runs next
  error,        \* "none", or the message of the Error that stopped the tick
  eState,       \* Elevator.state, "absent" for an id with no elevator
  eQueue,       \* Elevator.queue
  eDir,         \* Elevator.direction
  eChildOf,     \* ChildOf targets of each elevator, in insertion order
  eActing,      \* Acting of each elevator
  pState,       \* Passenger.state, "absent" for an id with no passenger
  pChildOf,     \* ChildOf targets of each passenger
  pDestinedTo,  \* DestinedTo / GoingTo targets of each passenger
  pActing,      \* Acting of each passenger
  hElapsed,     \* history: per entity, the deltas summed since its lock was set
  hSpawned,     \* history: some passenger has been spawned
  hOp,          \* history: the last call made on the gate alone, its delta, and
                \* the locks as they were before it
  hAge          \* history: per passenger, the ticks counted since it was spawned

vars == <<variant, phase, error, eState, eQueue, eDir, eChildOf, eActing,
          pState, pChildOf, pDestinedTo, pActing, hElapsed, hSpawned, hOp, hAge>>

\* the entity graph as one value, threaded through the systems' loops
World ==
  [error |-> error, eState |-> eState, eQueue |-> eQueue, eDir |-> eDir,
   eChildOf |-> eChildOf, eActing |-> eActing, pState |-> pState,
   pChildOf |-> pChildOf, pDestinedTo |-> pDestinedTo, pActing |-> pActing]

Commit(w) ==
  /\ error' = w.error
  /\ eState' = w.eState
  /\ eQueue' = w.eQueue
  /\ eDir' = w.eDir
  /\ eChildOf' = w.eChildOf
  /\ eActing' = w.eActing
  /\ pState' = w.pState
  /\ pChildOf' = w.pChildOf
  /\ pDestinedTo' = w.pDestinedTo
  /\ pActing' = w.pActing

\* direction of an idle elevator: "none" (setElevator) or "idle" (onAdd(Elevator))
IdleName(v) == IF v = "set" THEN "none" ELSE "idle"

\* world seeding: floors 0..NumFloors-1, one closed elevator on the first floor
SeedWorld(v) ==
  [error |-> "none",
   eState |-> [e \in ElevatorIds |-> IF e = 1 THEN "closed" ELSE "absent"],
   eQueue |-> [e \in ElevatorIds |-> <<>>],
   eDir |-> [e \in ElevatorIds |-> IdleName(v)],
   eChildOf |-> [e \in ElevatorIds |-> IF e = 1 THEN <<FloorEntity(0)>> ELSE <<>>],
   eActing |-> [e \in ElevatorIds |-> NoLock],
   pState |-> [p \in PassengerIds |-> "absent"],
   pChildOf |-> [p \in PassengerIds |-> <<>>],
   pDestinedTo |-> [p \in PassengerIds |-> <<>>],
   pActing |-> [p \in PassengerIds |-> NoLock]]

InitWorld(v) ==
  /\ variant = v
  /\ phase = "acting"
  /\ error = SeedWorld(v).error
  /\ eState = SeedWorld(v).eState
  /\ eQueue = SeedWorld(v).eQueue
  /\ eDir = SeedWorld(v).eDir
  /\ eChildOf = SeedWorld(v).eChildOf
  /\ eActing = SeedWorld(v).eActing
  /\ pState = SeedWorld(v).pState
  /\ pChildOf = SeedWorld(v).pChildOf
  /\ pDestinedTo = SeedWorld(v).pDestinedTo
  /\ pActing = SeedWorld(v).pActing
  /\ hElapsed = [e |-> [x \in ElevatorIds |-> -1], p |-> [x \in PassengerIds |-> -1]]
  /\ hSpawned = FALSE
  /\ hOp = [op |-> "seed", delta |-> 0, before |-> SeedWorld(v).pActing]
  /\ hAge = [p \in PassengerIds |-> 0]

Init == \E v \in {"set", "obs"} : InitWorld(v)

(* ------------------------------ the gate ------------------------------- *)
\* updateActingCompletion / actingSystem: every attached lock advances by
\* delta / duration and is removed once completion >= 1
updateActingCompletion(w, delta) ==
  [w EXCEPT !.eActing = [e \in ElevatorIds |-> advanceLock(w.eActing[e], delta)],
            !.pActing = [p \in PassengerIds |-> advanceLock(w.pActing[p], delta)]]

(* --------------------------- relation helpers -------------------------- *)
InSeq(x, s) == \E i \in 1 .. Len(s) : s[i] = x
\* removeComponent(world, id, ChildOf(t))
RemoveTarget(targets, t) == SelectSeq(targets, LAMBDA x : x # t)
\* addComponent(world, id, ChildOf(t))
AddTarget(targets, t) == IF InSeq(t, targets) THEN targets ELSE Append(targets, t)

\* a faulty variant of Dedup: the queue is stored as it is given
DedupNone(q) == q

\* Array.from(new Set(queue)): the first occurrence of every entry, in order
RECURSIVE Dedup(_)
Dedup(q) ==
  IF q = <<>> THEN <<>>
  ELSE LET init == Dedup(SubSeq(q, 1, Len(q) - 1))
           last == q[Len(q)]
       IN IF InSeq(last, init) THEN init ELSE Append(init, last)

\* every order in which a loop may visit the members of S
RECURSIVE Orders(_)
Orders(S) ==
  IF S = {} THEN {<<>>}
  ELSE UNION {{<<x>> \o o : o \in Orders(S \ {x})} : x \in S}

\* query(world, [Elevator]) in creation order
ElevatorsOf(w) == {e \in ElevatorIds : w.eState[e] # "absent"}
\* query(world, [Passenger])
PassengersOf(w) == {p \in PassengerIds : w.pState[p] # "absent"}
\* const [elevatorId] = query(world, [Elevator, ...]) over the elevators in S
FirstElevator(S) == IF S = {} THEN 0 ELSE CHOOSE e \in S : \A o \in S : e <= o

(* --------------------- elevator, the "set" iteration ------------------- *)
\* the direction setElevator stores
setElevatorDirection(queue, index) ==
  IF queue = <<>> THEN "none"
  ELSE IF JsGt(queue[1], index) THEN "up"
  ELSE IF JsLt(queue[1], index) THEN "down"
  ELSE "none"

\* setElevator(world, e, {state, queue}); a field the data omits keeps its value
setElevator(w, e, state, queue) ==
  LET floorId == FirstTarget(w.eChildOf[e])
      q == Dedup(queue)
  IN [w EXCEPT !.eState[e] = state,
               !.eQueue[e] = q,
               !.eDir[e] = setElevatorDirection(q, FloorIndex(floorId))]

\* a faulty variant of elevatorHop: the elevator goes straight to queue[0]
elevatorHopToHead(w, e) ==
  LET floorId == FirstTarget(w.eChildOf[e])
      next == QueueHead(w.eQueue[e])
  IN IF next \notin Floors
     THEN [w EXCEPT !.error = "Next floor index not found"]
     ELSE LET moved == [w EXCEPT !.eChildOf[e] =
                          AddTarget(RemoveTarget(@, floorId), FloorEntity(next))]
              set == setElevator(moved, e, "moving", moved.eQueue[e])
          IN [set EXCEPT !.eActing[e] = setActing(Duration)]

\* a faulty variant of elevatorHop: the old floor's ChildOf is not removed
elevatorHopKeepFloor(w, e) ==
  LET floorId == FirstTarget(w.eChildOf[e])
      index == FloorIndex(floorId)
      direction == IF JsGt(QueueHead(w.eQueue[e]), index) THEN 1 ELSE -1
      next == IF index = NoIndex THEN NoIndex ELSE index + direction
  IN IF next \notin Floors
     THEN [w EXCEPT !.error = "Next floor index not found"]
     ELSE LET moved == [w EXCEPT !.eChildOf[e] = AddTarget(@, FloorEntity(next))]
              set == setElevator(moved, e, "moving", moved.eQueue[e])
          IN [set EXCEPT !.eActing[e] = setActing(Duration)]

\* a faulty variant of elevatorHop: the old floor's ChildOf is removed before
\* the next floor is looked up
elevatorHopRemoveFirst(w, e) ==
  LET floorId == FirstTarget(w.eChildOf[e])
      index == FloorIndex(floorId)
      direction == IF JsGt(QueueHead(w.eQueue[e]), index) THEN 1 ELSE -1
      next == IF index = NoIndex THEN NoIndex ELSE index + direction
      removed == [w EXCEPT !.eChildOf[e] = RemoveTarget(@, floorId)]
  IN IF next \notin Floors
     THEN [removed EXCEPT !.error = "Next floor index not found"]
     ELSE LET moved == [removed EXCEPT !.eChildOf[e] = AddTarget(@, FloorEntity(next))]
              set == setElevator(moved, e, "moving", moved.eQueue[e])
          IN [set EXCEPT !.eActing[e] = setActing(Duration)]

\* a faulty variant of elevatorHop: the hop takes the head off the queue
elevatorHopPop(w, e) ==
  LET floorId == FirstTarget(w.eChildOf[e])
      index == FloorIndex(floorId)
      queue == w.eQueue[e]
      direction == IF JsGt(QueueHead(queue), index) THEN 1 ELSE -1
      next == IF index = NoIndex THEN NoIndex ELSE index + direction
  IN IF next \notin Floors
     THEN [w EXCEPT !.error = "Next floor index not found"]
     ELSE LET moved == [w EXCEPT !.eChildOf[e] =
                          AddTarget(RemoveTarget(@, floorId), FloorEntity(next))]
              set == setElevator(moved, e, "moving", Slice1(moved.eQueue[e]))
          IN [set EXCEPT !.eActing[e] = setActing(Duration)]

\* the hop of the closed and moving cases: one floor toward queue[0]
elevatorHop(w, e) ==
  LET floorId == FirstTarget(w.eChildOf[e])
      index == FloorIndex(floorId)
      queue == w.eQueue[e]
      direction == IF JsGt(QueueHead(queue), index) THEN 1 ELSE -1
      next == IF index = NoIndex THEN NoIndex ELSE index + direction
  IN IF next \notin Floors
     THEN [w EXCEPT !.error = "Next floor index not found"]
     ELSE LET moved == [w EXCEPT !.eChildOf[e] =
                          AddTarget(RemoveTarget(@, floorId), FloorEntity(next))]
              set == setElevator(moved, e, "moving", moved.eQueue[e])
          IN [set EXCEPT !.eActing[e] = setActing(Duration)]

\* a faulty variant of elevatorArrive: the head is left on the queue
elevatorArriveKeepHead(w, e) ==
  LET set == setElevator(w, e, "opening", w.eQueue[e])
  IN [set EXCEPT !.eActing[e] = setActing(Duration)]

\* a faulty variant of elevatorArrive: the arrival empties the queue
elevatorArriveClear(w, e) ==
  LET set == setElevator(w, e, "opening", <<>>)
  IN [set EXCEPT !.eActing[e] = setActing(Duration)]

\* arriving: queue[0] === index
elevatorArrive(w, e) ==
  LET set == setElevator(w, e, "opening", Slice1(w.eQueue[e]))
  IN [set EXCEPT !.eActing[e] = setActing(Duration)]

\* a faulty variant of isBeingBoardedOrExited: only exits are waited for
isBeingExited(w, e) ==
  \E p \in PassengersOf(w) :
    /\ InSeq(ElevatorEntity(e), w.pChildOf[p])
    /\ w.pState[p] = "exiting"

\* a faulty variant of isBeingBoardedOrExited: only passengers on the
\* elevator's floor are looked at, not those inside it
isBeingApproached(w, e) ==
  \E p \in PassengersOf(w) :
    /\ w.eChildOf[e] # <<>>
    /\ InSeq(FirstTarget(w.eChildOf[e]), w.pChildOf[p])
    /\ w.pState[p] = "exiting"

\* query(world, [Passenger, ChildOf(elevatorId)]).some(state !== "riding")
isBeingBoardedOrExited(w, e) ==
  \E p \in PassengersOf(w) :
    /\ InSeq(ElevatorEntity(e), w.pChildOf[p])
    /\ w.pState[p] # "riding"

\* the body of updateElevatorState's loop for one elevator without Acting
elevatorCase(w, e) ==
  LET index == FloorIndex(FirstTarget(w.eChildOf[e]))
      queue == w.eQueue[e]
  IN CASE w.eState[e] = "closed" ->
            IF queue = <<>> THEN w
            ELSE IF queue[1] = index THEN elevatorArrive(w, e)
            ELSE elevatorHop(w, e)
       [] w.eState[e] = "opening" -> setElevator(w, e, "open", queue)
       [] w.eState[e] = "open" ->
            IF isBeingBoardedOrExited(w, e) THEN w
            ELSE [setElevator(w, e, "closing", queue)
                    EXCEPT !.eActing[e] = setActing(Duration)]
       [] w.eState[e] = "closing" ->
            [setElevator(w, e, "closed", queue)
               EXCEPT !.eActing[e] = setActing(Duration)]
       [] w.eState[e] = "moving" ->
            IF QueueHead(queue) = index THEN elevatorArrive(w, e)
            ELSE elevatorHop(w, e)
       [] OTHER -> w

\* a loop over `order`; an Error thrown by one iteration ends it
ForEach(w, order, Body(_, _)) ==
  LET after[i \in 0 .. Len(order)] ==
        IF i = 0 THEN w
        ELSE IF after[i - 1].error # "none" THEN after[i - 1]
        ELSE Body(after[i - 1], order[i])
  IN after[Len(order)]

\* the ids of S in ascending order
RECURSIVE Ascending(_)
Ascending(S) ==
  IF S = {} THEN <<>>
  ELSE LET m == CHOOSE x \in S : \A y \in S : x <= y
       IN <<m>> \o Ascending(S \ {m})

\* a faulty variant of updateElevatorState: the query lacks Not(Acting)
updateElevatorStateLocked(w) ==
  ForEach(w, Ascending(ElevatorsOf(w)), elevatorCase)

\* updateElevatorState: every elevator without Acting, once
updateElevatorState(w) ==
  ForEach(w, Ascending({e \in ElevatorsOf(w) : ~w.eActing[e].held}), elevatorCase)

(* -------------------- passengers, the "set" iteration ------------------ *)
\* addEntity: the lowest id not in use
NewPassenger(w) == CHOOSE p \in PassengerIds :
                     /\ w.pState[p] = "absent"
                     /\ \A o \in PassengerIds : w.pState[o] = "absent" => p <= o

\* removeComponents(...getEntityComponents) and removeEntity
removePassenger(w, p) ==
  [w EXCEPT !.pState[p] = "absent", !.pChildOf[p] = <<>>,
            !.pDestinedTo[p] = <<>>, !.pActing[p] = NoLock]

\* the reaping loop's body: only the "exiting" case does anything
reapCase(w, p) == IF w.pState[p] = "exiting" THEN removePassenger(w, p) ELSE w

\* a faulty variant of reapPassengers: the loop walks the live result, in
\* which a removal moves the last entry into the place just visited
RECURSIVE ReapLive(_, _, _)
ReapLive(w, order, i) ==
  IF i > Len(order) THEN w
  ELSE IF w.pState[order[i]] = "exiting"
  THEN ReapLive(removePassenger(w, order[i]),
                SubSeq([order EXCEPT ![i] = order[Len(order)]], 1, Len(order) - 1),
                i + 1)
  ELSE ReapLive(w, order, i + 1)

reapPassengersLive(w) ==
  ReapLive(w, Ascending({p \in PassengersOf(w) : ~w.pActing[p].held}), 1)

\* for (const passengerId of query(world, [Passenger, Not(Acting)])) ... exiting
reapPassengers(w) ==
  ForEach(w, Ascending({p \in PassengersOf(w) : ~w.pActing[p].held}), reapCase)

\* a faulty variant of spawnPassenger: the origin floor is not pushed
spawnPassengerNoCall(w, f, d) ==
  LET p == NewPassenger(w)
  IN [w EXCEPT !.pChildOf[p] = <<FloorEntity(f)>>,
               !.pDestinedTo[p] = <<FloorEntity(d)>>,
               !.pState[p] = "waiting",
               !.pActing[p] = setActing(Duration)]

\* a faulty variant of spawnPassenger: the call goes to an elevator standing
\* on the origin floor when there is one
spawnPassengerHere(w, f, d) ==
  LET p == NewPassenger(w)
      made == [w EXCEPT !.pChildOf[p] = <<FloorEntity(f)>>,
                        !.pDestinedTo[p] = <<FloorEntity(d)>>,
                        !.pState[p] = "waiting",
                        !.pActing[p] = setActing(Duration)]
      here == {x \in ElevatorsOf(made) : InSeq(FloorEntity(f), made.eChildOf[x])}
      e == IF here # {} THEN CHOOSE x \in here : \A y \in here : y <= x
           ELSE FirstElevator(ElevatorsOf(made))
  IN IF e = 0 THEN made
     ELSE setElevator(made, e, made.eState[e], Append(made.eQueue[e], f))

\* a faulty variant of spawnPassenger: the call carries the floor's number
\* counted from one, not its index
spawnPassengerOneBased(w, f, d) ==
  LET p == NewPassenger(w)
      made == [w EXCEPT !.pChildOf[p] = <<FloorEntity(f)>>,
                        !.pDestinedTo[p] = <<FloorEntity(d)>>,
                        !.pState[p] = "waiting",
                        !.pActing[p] = setActing(Duration)]
      e == FirstElevator(ElevatorsOf(made))
  IN IF e = 0 THEN made
     ELSE setElevator(made, e, made.eState[e], Append(made.eQueue[e], f + 1))

\* one iteration of the spawning loop: origin floor f, destination floor d
spawnPassenger(w, f, d) ==
  LET p == NewPassenger(w)
      made == [w EXCEPT !.pChildOf[p] = <<FloorEntity(f)>>,
                        !.pDestinedTo[p] = <<FloorEntity(d)>>,
                        !.pState[p] = "waiting",
                        !.pActing[p] = setActing(Duration)]
      e == FirstElevator(ElevatorsOf(made))
  IN IF e = 0 THEN made
     ELSE setElevator(made, e, made.eState[e], Append(made.eQueue[e], f))

\* a faulty variant of spawnPassengers: the origin is not filtered out of the
\* destinations
RECURSIVE spawnPassengersAnywhere(_)
spawnPassengersAnywhere(w) ==
  IF Cardinality(PassengersOf(w)) >= MaxPassengers THEN {w}
  ELSE UNION {spawnPassengersAnywhere(spawnPassenger(w, f, d)) :
                <<f, d>> \in Floors \X Floors}

\* a faulty variant of spawnPassengers: the loop test is i <= cap
RECURSIVE spawnPassengersOver(_)
spawnPassengersOver(w) ==
  IF Cardinality(PassengersOf(w)) > MaxPassengers THEN {w}
  ELSE UNION {spawnPassengersOver(spawnPassenger(w, f, d)) :
                <<f, d>> \in {fd \in Floors \X Floors : fd[1] # fd[2]}}

\* for (let i = passengerIds.length; i < 100; i++): every outcome of the
\* random origin and the random destination among the other floors
RECURSIVE spawnPassengers(_)
spawnPassengers(w) ==
  IF Cardinality(PassengersOf(w)) >= MaxPassengers THEN {w}
  ELSE UNION {spawnPassengers(spawnPassenger(w, f, d)) :
                <<f, d>> \in {fd \in Floors \X Floors : fd[1] # fd[2]}}

\* managePassengerLifecycle: the worlds it can leave
managePassengerLifecycle(w) == spawnPassengers(reapPassengers(w))

\* const [elevatorId] = query(world, [Elevator, ChildOf(floorId)])
ElevatorOn(w, floorId) ==
  FirstElevator({e \in ElevatorsOf(w) : InSeq(floorId, w.eChildOf[e])})

\* a faulty variant of passengerWaiting: the passenger that enters is Riding
\* at once
passengerWaitingSeated(w, p) ==
  LET floorId == FirstTarget(w.pChildOf[p])
      e == ElevatorOn(w, floorId)
  IN IF e = 0 THEN w
     ELSE IF w.eState[e] # "open" THEN w
     ELSE [w EXCEPT !.pState[p] = "riding",
                    !.pChildOf[p] =
                       AddTarget(RemoveTarget(@, floorId), ElevatorEntity(e)),
                    !.pActing[p] = setActing(Duration)]

\* a faulty variant of passengerWaiting: the elevator's state is not looked at
passengerWaitingAnyDoor(w, p) ==
  LET floorId == FirstTarget(w.pChildOf[p])
      e == ElevatorOn(w, floorId)
  IN IF e = 0 THEN w
     ELSE [w EXCEPT !.pState[p] = "boarding",
                    !.pChildOf[p] =
                       AddTarget(RemoveTarget(@, floorId), ElevatorEntity(e)),
                    !.pActing[p] = setActing(Duration)]

\* case "waiting": board the Open elevator on the passenger's floor
passengerWaiting(w, p) ==
  LET floorId == FirstTarget(w.pChildOf[p])
      e == ElevatorOn(w, floorId)
  IN IF e = 0 THEN w
     ELSE IF w.eState[e] # "open" THEN w
     ELSE [w EXCEPT !.pState[p] = "boarding",
                    !.pChildOf[p] =
                       AddTarget(RemoveTarget(@, floorId), ElevatorEntity(e)),
                    !.pActing[p] = setActing(Duration)]

\* a faulty variant of passengerBoarding: the destination is not pushed
passengerBoardingNoPush(w, p) == [w EXCEPT !.pState[p] = "riding"]

\* case "boarding": ride, and push the destination onto the elevator's queue
passengerBoarding(w, p) ==
  LET destinationId == FirstTarget(w.pDestinedTo[p])
      elevatorId == FirstTarget(w.pChildOf[p])
      riding == [w EXCEPT !.pState[p] = "riding"]
  IN IF elevatorId[1] # "elevator" THEN riding
     ELSE setElevator(riding, elevatorId[2], riding.eState[elevatorId[2]],
                      Append(riding.eQueue[elevatorId[2]],
                             FloorIndex(destinationId)))

\* a faulty variant of passengerRiding: the elevator's state is not looked at
passengerRidingAnyDoor(w, p) ==
  LET elevatorId == FirstTarget(w.pChildOf[p])
      destinationId == FirstTarget(w.pDestinedTo[p])
      floorId == IF elevatorId[1] = "elevator"
                 THEN FirstTarget(w.eChildOf[elevatorId[2]])
                 ELSE Undefined
  IN IF floorId # destinationId THEN w
     ELSE IF elevatorId[1] # "elevator" THEN w
     ELSE [w EXCEPT !.pState[p] = "exiting",
                    !.pChildOf[p] =
                       AddTarget(RemoveTarget(@, elevatorId), floorId),
                    !.pActing[p] = setActing(Duration)]

\* a faulty variant of passengerRiding: the passenger that leaves also drops
\* its DestinedTo relation
passengerRidingArrived(w, p) ==
  LET elevatorId == FirstTarget(w.pChildOf[p])
      destinationId == FirstTarget(w.pDestinedTo[p])
      floorId == IF elevatorId[1] = "elevator"
                 THEN FirstTarget(w.eChildOf[elevatorId[2]])
                 ELSE Undefined
  IN IF floorId # destinationId THEN w
     ELSE IF elevatorId[1] # "elevator" THEN w
     ELSE IF w.eState[elevatorId[2]] # "open" THEN w
     ELSE [w EXCEPT !.pState[p] = "exiting",
                    !.pChildOf[p] =
                       AddTarget(RemoveTarget(@, elevatorId), floorId),
                    !.pDestinedTo[p] = RemoveTarget(@, destinationId),
                    !.pActing[p] = setActing(Duration)]

\* case "riding": leave the Open elevator on the destination floor
passengerRiding(w, p) ==
  LET elevatorId == FirstTarget(w.pChildOf[p])
      destinationId == FirstTarget(w.pDestinedTo[p])
      floorId == IF elevatorId[1] = "elevator"
                 THEN FirstTarget(w.eChildOf[elevatorId[2]])
                 ELSE Undefined
  IN IF floorId # destinationId THEN w
     ELSE IF elevatorId[1] # "elevator" THEN w
     ELSE IF w.eState[elevatorId[2]] # "open" THEN w
     ELSE [w EXCEPT !.pState[p] = "exiting",
                    !.pChildOf[p] =
                       AddTarget(RemoveTarget(@, elevatorId), floorId),
                    !.pActing[p] = setActing(Duration)]

\* the body of updatePassengerState's loop for one passenger without Acting
passengerCase(w, p) ==
  CASE w.pState[p] = "waiting" -> passengerWaiting(w, p)
    [] w.pState[p] = "boarding" -> passengerBoarding(w, p)
    [] w.pState[p] = "riding" -> passengerRiding(w, p)
    [] OTHER -> w

\* a faulty variant of updatePassengerState: the loop visits no passenger
updatePassengerStateNone(w) == {w}

\* updatePassengerState: every passenger without Acting, once, in any order
updatePassengerState(w) ==
  {ForEach(w, order, passengerCase) :
     order \in Orders({p \in PassengersOf(w) : ~w.pActing[p].held})}

(* ------------------------------ history -------------------------------- *)
\* the sum of deltas since acquisition after a gate call: -1 when no lock was held
ElapsedAfterGate(w, delta) ==
  [e |-> [x \in ElevatorIds |->
            IF w.eActing[x].held THEN hElapsed.e[x] + delta ELSE -1],
   p |-> [x \in PassengerIds |->
            IF w.pActing[x].held THEN hElapsed.p[x] + delta ELSE -1]]

\* after any other system: 0 for a lock the system has set
ElapsedAfterPass(w, w2) ==
  [e |-> [x \in ElevatorIds |->
            IF w2.eActing[x].held /\ ~w.eActing[x].held THEN 0 ELSE hElapsed.e[x]],
   p |-> [x \in PassengerIds |->
            IF w2.pActing[x].held /\ ~w.pActing[x].held THEN 0
            ELSE IF w2.pState[x] = "absent" THEN -1
            ELSE hElapsed.p[x]]]

\* a system other than the gate leaves the world w2; a passenger that is new
\* (its lock was set by the spawn) starts at age 0
Leave(w2) ==
  /\ Commit(w2)
  /\ hElapsed' = ElapsedAfterPass(World, w2)
  /\ hAge' = [p \in PassengerIds |->
               IF w2.pState[p] = "absent" THEN 0
               ELSE IF w2.pState[p] = "waiting" /\ w2.pActing[p].held
                       /\ ~(pState[p] = "waiting" /\ pActing[p].held) THEN 0
               ELSE hAge[p]]
  /\ hSpawned' = (hSpawned \/ PassengersOf(w2) # {})
  /\ UNCHANGED <<variant, hOp>>

(* ------------------------- the tick, "set" iteration ------------------- *)
\* update(): world.time.delta is set, then the gate runs with it
ActingWith(deltas) ==
  /\ phase = "acting" /\ error = "none"
  /\ \E delta \in deltas :
       /\ Commit(updateActingCompletion(World, delta))
       /\ hElapsed' = ElapsedAfterGate(World, delta)
  /\ phase' = IF variant = "set" THEN "elevator" ELSE "direction"
  /\ UNCHANGED <<variant, hSpawned, hOp>>

ActingPass == ActingWith(Deltas) /\ UNCHANGED hAge

\* update(): the elevator state machine
ElevatorPass ==
  /\ variant = "set" /\ phase = "elevator" /\ error = "none"
  /\ Leave(updateElevatorState(World))
  /\ phase' = "lifecycle"

\* update(): reaping and spawning
LifecyclePass ==
  /\ variant = "set" /\ phase = "lifecycle" /\ error = "none"
  /\ \E w \in managePassengerLifecycle(World) : Leave(w)
  /\ phase' = "passenger"

\* update(): the passenger state machine
PassengerPass ==
  /\ variant = "set" /\ phase = "passenger" /\ error = "none"
  /\ \E w \in updatePassengerState(World) : Leave(w)
  /\ phase' = "acting"

(* --------------------- elevator, the "obs" iteration ------------------- *)
\* updateElevatorDirection's expression
elevatorDirection(queue, index) ==
  IF queue = <<>> THEN "idle"
  ELSE IF JsGt(queue[1], index) THEN "up"
  ELSE "down"

\* the body of updateElevatorDirection's loop
directionCase(w, e) ==
  LET floorId == FirstTarget(w.eChildOf[e])
  IN IF floorId = Undefined
     THEN [w EXCEPT !.error = "Expected elevator to be on a floor (ChildOf)"]
     ELSE [w EXCEPT !.eDir[e] = elevatorDirection(w.eQueue[e], FloorIndex(floorId))]

\* updateElevatorDirection: every elevator, locked or not
updateElevatorDirection(w) == ForEach(w, Ascending(ElevatorsOf(w)), directionCase)

\* onSet(Elevator): the given fields are stored as they are
onSetElevator(w, e, state, queue) ==
  [w EXCEPT !.eState[e] = state, !.eQueue[e] = queue]

\* state "opening", queue.slice(1), Acting for 1000
arriveObs(w, e) ==
  [onSetElevator(w, e, "opening", Slice1(w.eQueue[e]))
     EXCEPT !.eActing[e] = setActing(Duration)]

\* a faulty variant of hopObs: the doors start to open during the last hop
hopObsOpening(w, e) ==
  LET floorId == FirstTarget(w.eChildOf[e])
      index == FloorIndex(floorId)
      direction == IF JsGt(QueueHead(w.eQueue[e]), index) THEN 1 ELSE -1
      stop == IF index = NoIndex THEN NoIndex ELSE index + direction
  IN IF stop \notin Floors
     THEN [w EXCEPT !.error = "Expected floor index to be found"]
     ELSE [onSetElevator(w, e, IF stop = QueueHead(w.eQueue[e]) THEN "opening" ELSE "moving",
                         w.eQueue[e])
             EXCEPT !.eChildOf[e] =
                      AddTarget(RemoveTarget(@, floorId), FloorEntity(stop)),
                    !.eActing[e] = setActing(Duration)]

\* the floor swap of updateElevatorClosedState and updateElevatorMovingState
hopObs(w, e) ==
  LET floorId == FirstTarget(w.eChildOf[e])
      index == FloorIndex(floorId)
      direction == IF JsGt(QueueHead(w.eQueue[e]), index) THEN 1 ELSE -1
      stop == IF index = NoIndex THEN NoIndex ELSE index + direction
  IN IF stop \notin Floors
     THEN [w EXCEPT !.error = "Expected floor index to be found"]
     ELSE [onSetElevator(w, e, "moving", w.eQueue[e])
             EXCEPT !.eChildOf[e] =
                      AddTarget(RemoveTarget(@, floorId), FloorEntity(stop)),
                    !.eActing[e] = setActing(Duration)]

\* a faulty variant of closedCase: an empty queue is served like an arrival
closedCaseNoIdle(w, e) ==
  LET index == FloorIndex(FirstTarget(w.eChildOf[e]))
      queue == w.eQueue[e]
  IN IF w.eState[e] # "closed" THEN w
     ELSE IF queue = <<>> \/ queue[1] = index THEN arriveObs(w, e)
     ELSE hopObs(w, e)

\* the body of updateElevatorClosedState's loop
closedCase(w, e) ==
  LET index == FloorIndex(FirstTarget(w.eChildOf[e]))
      queue == w.eQueue[e]
  IN IF w.eState[e] # "closed" THEN w
     ELSE IF queue = <<>> THEN w
     ELSE IF queue[1] = index THEN arriveObs(w, e)
     ELSE hopObs(w, e)

\* query(world, [Or(Boarding(elevatorId), Exiting(elevatorId))]): no system
\* of the repository attaches either relation
transiting(w, e) == {}

\* the body of updateElevatorOpenState's loop
openCase(w, e) ==
  IF w.eState[e] # "open" THEN w
  ELSE IF transiting(w, e) # {} THEN w
  ELSE [onSetElevator(w, e, "closing", w.eQueue[e])
          EXCEPT !.eActing[e] = setActing(Duration)]

\* the body of updateElevatorOpeningState's loop
openingCase(w, e) ==
  IF w.eState[e] # "opening" THEN w
  ELSE [onSetElevator(w, e, "open", w.eQueue[e])
          EXCEPT !.eActing[e] = setActing(Duration)]

\* the body of updateElevatorClosingState's loop
closingCase(w, e) ==
  LET index == FloorIndex(FirstTarget(w.eChildOf[e]))
      queue == w.eQueue[e]
  IN IF w.eState[e] # "closing" THEN w
     ELSE IF queue = <<>> \/ queue[1] # index
     THEN onSetElevator(w, e, "closed", queue)
     ELSE arriveObs(w, e)

\* a faulty variant of movingCase: the elevator that stops for an empty queue
\* gets a lock like every other transition out of Moving
movingCaseLocked(w, e) ==
  LET index == FloorIndex(FirstTarget(w.eChildOf[e]))
      queue == w.eQueue[e]
  IN IF w.eState[e] # "moving" THEN w
     ELSE IF queue = <<>>
     THEN [onSetElevator(w, e, "closed", queue) EXCEPT !.eActing[e] = setActing(Duration)]
     ELSE IF queue[1] = index THEN arriveObs(w, e)
     ELSE hopObs(w, e)

\* the body of updateElevatorMovingState's loop
movingCase(w, e) ==
  LET index == FloorIndex(FirstTarget(w.eChildOf[e]))
      queue == w.eQueue[e]
  IN IF w.eState[e] # "moving" THEN w
     ELSE IF queue = <<>> THEN onSetElevator(w, e, "closed", queue)
     ELSE IF queue[1] = index THEN arriveObs(w, e)
     ELSE hopObs(w, e)

\* for (const elevatorId of query(world, [Elevator, Not(Acting)]))
UnlockedElevators(w) == Ascending({e \in ElevatorsOf(w) : ~w.eActing[e].held})

updateElevatorClosedState(w) == ForEach(w, UnlockedElevators(w), closedCase)
updateElevatorOpenState(w) == ForEach(w, UnlockedElevators(w), openCase)
updateElevatorOpeningState(w) == ForEach(w, UnlockedElevators(w), openingCase)
updateElevatorClosingState(w) == ForEach(w, UnlockedElevators(w), closingCase)
updateElevatorMovingState(w) == ForEach(w, UnlockedElevators(w), movingCase)

(* -------------------- passengers, the "obs" iteration ------------------ *)
\* a faulty variant of spawnPassengerObs: the call stores the default state
\* for the field it does not give
spawnPassengerObsReset(w, f, d) ==
  LET p == NewPassenger(w)
      made == [w EXCEPT !.pChildOf[p] = <<FloorEntity(f)>>,
                        !.pDestinedTo[p] = <<FloorEntity(d)>>,
                        !.pState[p] = "waiting",
                        !.pActing[p] = setActing(Duration)]
      e == FirstElevator(ElevatorsOf(made))
  IN IF e = 0 THEN [made EXCEPT !.error = "Expected at least 1 elevator"]
     ELSE onSetElevator(made, e, "closed", Append(made.eQueue[e], f))

\* the spawn of managePassengerLifecycle (part_004): the passenger is made,
\* then the call is stored, or the Error is thrown when no elevator exists
spawnPassengerObs(w, f, d) ==
  LET p == NewPassenger(w)
      made == [w EXCEPT !.pChildOf[p] = <<FloorEntity(f)>>,
                        !.pDestinedTo[p] = <<FloorEntity(d)>>,
                        !.pState[p] = "waiting",
                        !.pActing[p] = setActing(Duration)]
      e == FirstElevator(ElevatorsOf(made))
  IN IF e = 0 THEN [made EXCEPT !.error = "Expected at least 1 elevator"]
     ELSE onSetElevator(made, e, made.eState[e], Append(made.eQueue[e], f))

\* managePassengerLifecycle (part_004): reap, then at most one spawn, which
\* the cap or the draw random(2000) > 10 may skip
managePassengerLifecycleObs(w) ==
  LET reaped == reapPassengers(w)
  IN IF Cardinality(PassengersOf(reaped)) >= MaxPassengers THEN {reaped}
     ELSE {reaped} \cup
          {spawnPassengerObs(reaped, fd[1], fd[2]) :
             fd \in {x \in Floors \X Floors : x[1] # x[2]}}

\* the body of updatePassengerState's loop (part_004)
passengerCaseObs(w, p) ==
  CASE w.pState[p] = "waiting" ->
         LET floorId == FirstTarget(w.pChildOf[p])
             e == ElevatorOn(w, floorId)
         IN IF e = 0 THEN w
            ELSE IF w.eState[e] # "open" THEN w
            ELSE [w EXCEPT !.pState[p] = "boarding",
                           !.pChildOf[p] =
                              AddTarget(RemoveTarget(@, floorId), ElevatorEntity(e)),
                           !.pActing[p] = setActing(Duration)]
    [] w.pState[p] = "boarding" ->
         LET destinationId == FirstTarget(w.pDestinedTo[p])
             elevatorId == FirstTarget(w.pChildOf[p])
             riding == [w EXCEPT !.pState[p] = "riding"]
         IN IF elevatorId[1] # "elevator" THEN riding
            ELSE onSetElevator(riding, elevatorId[2], riding.eState[elevatorId[2]],
                               Append(riding.eQueue[elevatorId[2]],
                                      FloorIndex(destinationId)))
    [] w.pState[p] = "riding" ->
         LET elevatorId == FirstTarget(w.pChildOf[p])
             destinationId == FirstTarget(w.pDestinedTo[p])
             floorId == IF elevatorId[1] = "elevator"
                        THEN FirstTarget(w.eChildOf[elevatorId[2]])
                        ELSE Undefined
         IN IF floorId # destinationId THEN w
            ELSE IF elevatorId[1] # "elevator" THEN w
            ELSE IF w.eState[elevatorId[2]] # "open" THEN w
            ELSE [w EXCEPT !.pState[p] = "exiting",
                           !.pChildOf[p] =
                              AddTarget(RemoveTarget(@, elevatorId), floorId),
                           !.pActing[p] = setActing(Duration)]
    [] OTHER -> w

updatePassengerStateObs(w) ==
  {ForEach(w, order, passengerCaseObs) :
     order \in Orders({p \in PassengersOf(w) : ~w.pActing[p].held})}

(* ------------------------- the tick, "obs" iteration ------------------- *)
\* the model follows a queue up to MaxQueue entries
WithinQueueBound(w) == \A e \in ElevatorIds : Len(w.eQueue[e]) <= MaxQueue

\* the systems of the tick in the order they run
NextPhaseObs(ph) ==
  CASE ph = "acting" -> "direction"
    [] ph = "direction" -> "closed"
    [] ph = "closed" -> "open"
    [] ph = "open" -> "opening"
    [] ph = "opening" -> "closing"
    [] ph = "closing" -> "moving"
    [] ph = "moving" -> "lifecycle"
    [] ph = "lifecycle" -> "passenger"
    [] OTHER -> "acting"

ObsSystem(ph, w) ==
  CASE ph = "direction" -> {updateElevatorDirection(w)}
    [] ph = "closed" -> {updateElevatorClosedState(w)}
    [] ph = "open" -> {updateElevatorOpenState(w)}
    [] ph = "opening" -> {updateElevatorOpeningState(w)}
    [] ph = "closing" -> {updateElevatorClosingState(w)}
    [] ph = "moving" -> {updateElevatorMovingState(w)}
    [] ph = "lifecycle" -> managePassengerLifecycleObs(w)
    [] ph = "passenger" -> updatePassengerStateObs(w)
    [] OTHER -> {w}

ObsPass(ph) ==
  /\ variant = "obs" /\ phase = ph /\ error = "none"
  /\ \E w \in ObsSystem(ph, World) : WithinQueueBound(w) /\ Leave(w)
  /\ phase' = NextPhaseObs(ph)

DirectionPass == ObsPass("direction")
ClosedPass == ObsPass("closed")
OpenPass == ObsPass("open")
OpeningPass == ObsPass("opening")
ClosingPass == ObsPass("closing")
MovingPass == ObsPass("moving")
LifecyclePassObs == ObsPass("lifecycle")
PassengerPassObs == ObsPass("passenger")

NextObs ==
  \/ DirectionPass \/ ClosedPass \/ OpenPass \/ OpeningPass \/ ClosingPass
  \/ MovingPass \/ LifecyclePassObs \/ PassengerPassObs

NextSet == ActingPass \/ ElevatorPass \/ LifecyclePass \/ PassengerPass

SpecSet == InitWorld("set") /\ [][NextSet]_vars

Next == NextSet \/ NextObs

\* both iterations, every delta
Spec == Init /\ [][Next]_vars

\* the "set" iteration with time that advances in every tick; the run loop
\* (requestAnimationFrame) calls update() again and again
ActingPassPositive ==
  /\ ActingWith(Deltas \ {0})
  /\ hAge' = [p \in PassengerIds |-> IF pState[p] = "absent" THEN 0 ELSE hAge[p] + 1]

NextLive == ActingPassPositive \/ ElevatorPass \/ LifecyclePass \/ PassengerPass

LiveSpec == InitWorld("set") /\ [][NextLive]_vars

(* ------------------------------ the scenario --------------------------- *)
\* One passenger, spawned on floor 0 for floor 1 by the first lifecycle pass;
\* every later pass runs the reaping loop alone.
ScenarioLifecyclePass ==
  /\ variant = "set" /\ phase = "lifecycle" /\ error = "none"
  /\ Leave(IF hSpawned THEN reapPassengers(World)
           ELSE spawnPassenger(reapPassengers(World), 0, 1))
  /\ phase' = "passenger"

NextScenario == ActingPass \/ ElevatorPass \/ ScenarioLifecyclePass \/ PassengerPass

ScenarioSpec == InitWorld("set") /\ [][NextScenario]_vars

(* ------------------------------ the gate alone ------------------------- *)
\* The calls a client can make on the Acting component, on the passengers'
\* lock slots of an otherwise untouched world.
GateDurations == {-Duration, 0, Duration}

GateLeave(locks, op, delta) ==
  /\ pActing' = locks
  /\ hOp' = [op |-> op, delta |-> delta, before |-> pActing]
  /\ UNCHANGED <<variant, phase, error, eState, eQueue, eDir, eChildOf, eActing,
                 pState, pChildOf, pDestinedTo, hElapsed, hSpawned, hAge>>

\* addComponent(world, id, Acting): onAdd stores the defaults
GateAdd ==
  \E p \in PassengerIds :
    /\ ~pActing[p].held
    /\ GateLeave([pActing EXCEPT ![p] = onAddActing], "add", 0)

\* setComponent(world, id, Acting, {duration}): onSet stores the duration
GateSet ==
  \E p \in PassengerIds :
    /\ \E duration \in GateDurations :
         GateLeave([pActing EXCEPT ![p] = setActing(duration)], "set", 0)

\* updateActingCompletion with world.time.delta = delta
GateAdvance ==
  \E delta \in Deltas :
    /\ \A p \in PassengerIds : pActing[p].n > -(MaxBelow * Duration)
    /\ GateLeave(updateActingCompletion(World, delta).pActing, "advance", delta)

NextGate == GateAdd \/ GateSet \/ GateAdvance

GateSpec == InitWorld("obs") /\ [][NextGate]_vars

(* ---------------------------- two elevators ---------------------------- *)
\* The seeded world with a second elevator, Closed on floor f with an empty
\* queue, created after the first.
SeedWorldTwo(f) ==
  [SeedWorld("set") EXCEPT !.eState[2] = "closed",
                           !.eChildOf[2] = <<FloorEntity(f)>>]

InitTwo ==
  \E f \in Floors :
    /\ variant = "set"
    /\ phase = "acting"
    /\ error = SeedWorldTwo(f).error
    /\ eState = SeedWorldTwo(f).eState
    /\ eQueue = SeedWorldTwo(f).eQueue
    /\ eDir = SeedWorldTwo(f).eDir
    /\ eChildOf = SeedWorldTwo(f).eChildOf
    /\ eActing = SeedWorldTwo(f).eActing
    /\ pState = SeedWorldTwo(f).pState
    /\ pChildOf = SeedWorldTwo(f).pChildOf
    /\ pDestinedTo = SeedWorldTwo(f).pDestinedTo
    /\ pActing = SeedWorldTwo(f).pActing
    /\ hElapsed = [e |-> [x \in ElevatorIds |-> -1], p |-> [x \in PassengerIds |-> -1]]
    /\ hSpawned = FALSE
    /\ hOp = [op |-> "seed", delta |-> 0, before |-> SeedWorldTwo(f).pActing]
    /\ hAge = [p \in PassengerIds |-> 0]

SpecTwo == InitTwo /\ [][NextSet]_vars

(* ------------------------ any elevator to start from ------------------- *)
\* The exported calls (setElevator, addComponent / removeComponent of ChildOf)
\* let a client leave the seeded elevator in any state, with any queue of
\* numbers and on a floor or on none, before the ticks run. Entries below and
\* above the floors' indices stand for the numbers no floor has.
QueueEntries == Floors \cup {-2, NumFloors}
ProbeQueues == {<<>>} \cup {<<a>> : a \in QueueEntries}
                 \cup {<<a, b>> : <<a, b>> \in {ab \in QueueEntries \X QueueEntries : ab[1] # ab[2]}}
ProbeStates == {"closed", "opening", "open", "closing", "moving"}
ProbeLocations == {<<>>} \cup {<<FloorEntity(f)>> : f \in Floors}

ProbeWorld(v, state, queue, location) ==
  LET placed == [SeedWorld(v) EXCEPT !.eChildOf[1] = location]
  IN IF v = "set" THEN setElevator(placed, 1, state, queue)
     ELSE onSetElevator(placed, 1, state, queue)

InitProbe ==
  \E v \in {"set", "obs"}, state \in ProbeStates, queue \in ProbeQueues,
     location \in ProbeLocations :
    /\ variant = v
    /\ phase = "acting"
    /\ error = ProbeWorld(v, state, queue, location).error
    /\ eState = ProbeWorld(v, state, queue, location).eState
    /\ eQueue = ProbeWorld(v, state, queue, location).eQueue
    /\ eDir = ProbeWorld(v, state, queue, location).eDir
    /\ eChildOf = ProbeWorld(v, state, queue, location).eChildOf
    /\ eActing = ProbeWorld(v, state, queue, location).eActing
    /\ pState = ProbeWorld(v, state, queue, location).pState
    /\ pChildOf = ProbeWorld(v, state, queue, location).pChildOf
    /\ pDestinedTo = ProbeWorld(v, state, queue, location).pDestinedTo
    /\ pActing = ProbeWorld(v, state, queue, location).pActing
    /\ hElapsed = [e |-> [x \in ElevatorIds |-> -1], p |-> [x \in PassengerIds |-> -1]]
    /\ hSpawned = FALSE
    /\ hOp = [op |-> "seed", delta |-> 0, before |-> SeedWorld(v).pActing]
    /\ hAge = [p \in PassengerIds |-> 0]

ProbeSpec == InitProbe /\ [][Next]_vars

(* ------------------------------ no elevator ---------------------------- *)
\* The seeded world without its elevator (removeEntity(world, elevatorId)
\* before the first tick), in either iteration.
SeedWorldNone(v) ==
  [SeedWorld(v) EXCEPT !.eState[1] = "absent", !.eChildOf[1] = <<>>]

InitNone ==
  \E v \in {"set", "obs"} :
    /\ variant = v
    /\ phase = "acting"
    /\ error = SeedWorldNone(v).error
    /\ eState = SeedWorldNone(v).eState
    /\ eQueue = SeedWorldNone(v).eQueue
    /\ eDir = SeedWorldNone(v).eDir
    /\ eChildOf = SeedWorldNone(v).eChildOf
    /\ eActing = SeedWorldNone(v).eActing
    /\ pState = SeedWorldNone(v).pState
    /\ pChildOf = SeedWorldNone(v).pChildOf
    /\ pDestinedTo = SeedWorldNone(v).pDestinedTo
    /\ pActing = SeedWorldNone(v).pActing
    /\ hElapsed = [e |-> [x \in ElevatorIds |-> -1], p |-> [x \in PassengerIds |-> -1]]
    /\ hSpawned = FALSE
    /\ hOp = [op |-> "seed", delta |-> 0, before |-> SeedWorldNone(v).pActing]
    /\ hAge = [p \in PassengerIds |-> 0]

SpecNone == InitNone /\ [][Next]_vars

(* ================================ claims =============================== *)
\* the floor an elevator is on, and its index
FloorOf(e) == FirstTarget(eChildOf[e])
IndexOf(e) == FloorIndex(FloorOf(e))
\* the location of a passenger, and its destination
LocationOf(p) == FirstTarget(pChildOf[p])
DestinationOf(p) == FirstTarget(pDestinedTo[p])

\* a generous count of ticks for one round trip: at most NumFloors stops to
\* the origin and NumFloors more to the destination, each stop at most
\* NumFloors hops, the doors, and MaxPassengers boardings, two ticks apiece
MaxLife == 2 * NumFloors * (2 * NumFloors + 2 * MaxPassengers + 6)

\* C1: with one elevator, floors 0..NumFloors-1 and a positive delta in every
\* tick, every passenger is destroyed within MaxLife ticks of its spawn (its
\* age, counted in ticks, never passes MaxLife, and an id leaves the live set
\* only through the reaping of an Exiting passenger), and whenever it is
\* Exiting its location is its destination.
C1_RoundTrip ==
  \A p \in PassengerIds :
    pState[p] # "absent" =>
      /\ hAge[p] <= MaxLife
      /\ pState[p] = "exiting" => LocationOf(p) = DestinationOf(p)

C1_Witness ==
  \E p \in PassengerIds :
    /\ pState[p] = "exiting"
    /\ LocationOf(p) = DestinationOf(p)
    /\ ~pActing[p].held
    /\ hAge[p] > 0
    /\ phase = "lifecycle"

\* C2: for every elevator, after any pass, direction is Idle iff the queue is
\* empty, else Up when queue[0] > the index of its floor, else Down.
C2_DirectionIsFunction ==
  \A e \in ElevatorIds :
    eState[e] # "absent" =>
      eDir[e] = (IF eQueue[e] = <<>> THEN IdleName(variant)
                 ELSE IF eQueue[e][1] > IndexOf(e) THEN "up"
                 ELSE "down")

\* C3: a pass leaves the state field of every elevator and every passenger
\* that carries a lock when the pass runs unchanged; a state field changes
\* only in a pass in which its entity has no lock.
C3_LockedStateUnchanged ==
  [][/\ \A e \in ElevatorIds : eActing[e].held => eState'[e] = eState[e]
     /\ \A p \in PassengerIds : pActing[p].held => pState'[p] = pState[p]]_vars

\* a locked elevator and a locked passenger have just been passed over by
\* their state machines (their locks were set in an earlier tick)
C3_Witness ==
  /\ phase = "acting"
  /\ \E e \in ElevatorIds : eActing[e].held /\ hElapsed.e[e] > 0
  /\ \E p \in PassengerIds : pActing[p].held /\ hElapsed.p[p] > 0
                             /\ pState[p] = "boarding"

\* the step of the scenario a state belongs to: -1 when it belongs to none
ScenarioStage ==
  LET state == eState[1]
      queue == eQueue[1]
      floor == IndexOf(1)
      passenger == pState[1]
      location == LocationOf(1)
      done == {"open", "closing", "closed"}
  IN CASE passenger = "absent" /\ ~hSpawned /\ state = "closed"
            /\ queue = <<>> /\ floor = 0 -> 0
       [] passenger = "waiting" /\ location = FloorEntity(0) /\ state = "closed"
            /\ queue = <<0>> /\ floor = 0 -> 1
       [] passenger = "waiting" /\ location = FloorEntity(0) /\ state = "opening"
            /\ queue = <<>> /\ floor = 0 -> 2
       [] passenger = "waiting" /\ location = FloorEntity(0) /\ state = "open"
            /\ queue = <<>> /\ floor = 0 -> 3
       [] passenger = "boarding" /\ location = ElevatorEntity(1) /\ state = "open"
            /\ queue = <<>> /\ floor = 0 -> 4
       [] passenger = "riding" /\ location = ElevatorEntity(1) /\ state = "open"
            /\ queue = <<1>> /\ floor = 0 -> 5
       [] passenger = "riding" /\ location = ElevatorEntity(1) /\ state = "closing"
            /\ queue = <<1>> /\ floor = 0 -> 6
       [] passenger = "riding" /\ location = ElevatorEntity(1) /\ state = "closed"
            /\ queue = <<1>> /\ floor = 0 -> 7
       [] passenger = "riding" /\ location = ElevatorEntity(1) /\ state = "moving"
            /\ queue = <<1>> /\ floor = 1 -> 8
       [] passenger = "riding" /\ location = ElevatorEntity(1) /\ state = "opening"
            /\ queue = <<>> /\ floor = 1 -> 9
       [] passenger = "riding" /\ location = ElevatorEntity(1) /\ state = "open"
            /\ queue = <<>> /\ floor = 1 -> 10
       [] passenger = "exiting" /\ location = FloorEntity(1) /\ state \in done
            /\ queue = <<>> /\ floor = 1 -> 11
       [] passenger = "absent" /\ hSpawned /\ state \in done
            /\ queue = <<>> /\ floor = 1 -> 12
       [] OTHER -> -1

\* C4: one elevator Closed on floor 0, one passenger spawned on floor 0 for
\* floor 1: every state of every run is one of the scenario's steps (queue
\* [0]; Opening with the head popped; Open; Boarding; Riding with queue [1],
\* the elevator still Open; Closing; Closed; Moving on floor 1; Opening with
\* the head popped; Open; Exiting on floor 1; destroyed), and every step of
\* the run stays in its scenario step or moves to the next one.
C4_ScenarioOrder ==
  [][/\ ScenarioStage # -1
     /\ ScenarioStage' \in {ScenarioStage, ScenarioStage + 1}]_vars

\* the last step: the passenger has been destroyed, the elevator is at floor 1
C4_Witness == ScenarioStage = 12

\* C5: no queue holds two consecutive equal entries.
C5_NoConsecutiveDuplicates ==
  \A e \in ElevatorIds :
    \A i \in 1 .. (Len(eQueue[e]) - 1) : eQueue[e][i] # eQueue[e][i + 1]

\* the pass that evaluates elevator e in state Closed or Moving is about to run
EvaluatedClosedOrMoving(e) ==
  /\ error = "none"
  /\ \/ variant = "set" /\ phase = "elevator" /\ eState[e] \in {"closed", "moving"}
     \/ variant = "obs" /\ phase = "closed" /\ eState[e] = "closed"
     \/ variant = "obs" /\ phase = "moving" /\ eState[e] = "moving"

\* C6: the evaluation of an unlocked Closed or Moving elevator whose queue[0]
\* is the index of its floor removes exactly that head, sets Opening,
\* attaches a lock and keeps the floor.
C6_ArrivalPopsHead ==
  [][\A e \in ElevatorIds :
       (/\ EvaluatedClosedOrMoving(e)
        /\ ~eActing[e].held
        /\ eQueue[e] # <<>>
        /\ eQueue[e][1] = IndexOf(e))
       => /\ eQueue'[e] = Tail(eQueue[e])
          /\ eState'[e] = "opening"
          /\ eActing'[e].held
          /\ eChildOf'[e] = eChildOf[e]]_vars

\* an arrival at a floor other than the first has just emptied the queue
C6_Witness ==
  \E e \in ElevatorIds :
    /\ eState[e] = "opening" /\ eQueue[e] = <<>>
    /\ eActing[e].held /\ hElapsed.e[e] = 0
    /\ IndexOf(e) > 0

\* C7: a step from a state where an elevator is Closed with an empty queue to
\* a state where its queue is still empty leaves it Closed on the same floor,
\* attaches no lock and restarts none, and leaves an Idle direction Idle.
C7_IdleStaysClosed ==
  [][\A e \in ElevatorIds :
       (eState[e] = "closed" /\ eQueue[e] = <<>> /\ eQueue'[e] = <<>>)
       => /\ eState'[e] = "closed"
          /\ eChildOf'[e] = eChildOf[e]
          /\ eActing'[e].held => (eActing[e].held /\ eActing'[e].n >= eActing[e].n)
          /\ eDir[e] = IdleName(variant) => eDir'[e] = IdleName(variant)]_vars

\* an unlocked elevator rests Closed and Idle with an empty queue where its
\* last trip ended, all its state machines having run
C7_Witness ==
  \E e \in ElevatorIds :
    /\ phase = "acting"
    /\ eState[e] = "closed" /\ eQueue[e] = <<>> /\ ~eActing[e].held
    /\ eDir[e] = IdleName(variant)
    /\ IndexOf(e) > 0

\* C8: an advance with delta 0 leaves every lock as it was.
C8_ZeroDeltaChangesNothing ==
  (hOp.op = "advance" /\ hOp.delta = 0) => pActing = hOp.before

\* C9: an advance removes every lock whose duration is <= 0.
C9_DegenerateLockReleased ==
  hOp.op = "advance" =>
    \A p \in PassengerIds :
      (hOp.before[p].held /\ hOp.before[p].duration <= 0) => ~pActing[p].held

C11_OrderAndSameTickBoarding ==
  [][/\ phase = "acting" => phase' = "elevator"
     /\ phase = "elevator" => phase' = "lifecycle"
     /\ phase = "lifecycle" => phase' = "passenger"
     /\ phase = "passenger" => phase' = "acting"
     /\ phase # "elevator" => eState' = eState
     /\ \A p \in PassengerIds :
          (/\ phase = "passenger"
           /\ pState[p] = "waiting" /\ ~pActing[p].held
           /\ \E e \in ElevatorIds : eState[e] = "open" /\ FloorOf(e) = LocationOf(p))
          => pState'[p] = "boarding"]_vars

\* the end of a tick whose gate call released the Opening elevator's lock:
\* the elevator is Open and a passenger that was Waiting there has boarded
C11_Witness ==
  \E e \in ElevatorIds, p \in PassengerIds :
    /\ phase = "acting"
    /\ eState[e] = "open" /\ ~eActing[e].held /\ hElapsed.e[e] >= Duration
    /\ pState[p] = "boarding" /\ LocationOf(p) = ElevatorEntity(e)
    /\ hElapsed.p[p] = 0

\* C12: the live passengers never outnumber the cap, and right after a
\* lifecycle pass no unlocked Exiting passenger is left; in the iteration
\* whose loop refills to the cap the count then equals the cap, so the count
\* compared with the cap is the one after the reaping.
C12_PopulationCap ==
  /\ Cardinality({p \in PassengerIds : pState[p] # "absent"}) <= MaxPassengers
  /\ phase = "passenger" =>
       /\ \A p \in PassengerIds : ~(pState[p] = "exiting" /\ ~pActing[p].held)
       /\ variant = "set" =>
            Cardinality({p \in PassengerIds : pState[p] # "absent"}) = MaxPassengers

\* right after a lifecycle pass the population is at the cap, one of them a
\* passenger spawned by this pass while another has already travelled: the
\* pass has reaped an arrived passenger and refilled its place
C12_Witness ==
  /\ variant = "set" /\ phase = "passenger"
  /\ Cardinality({p \in PassengerIds : pState[p] # "absent"}) = MaxPassengers
  /\ \E p \in PassengerIds :
       pState[p] = "waiting" /\ pActing[p].held /\ hElapsed.p[p] = 0
  /\ \E p \in PassengerIds : pState[p] \in {"boarding", "riding"}
  /\ \E e \in ElevatorIds : IndexOf(e) > 0 /\ eState[e] \in {"open", "closing", "closed"}

\* C13: in every state every elevator and every live passenger has exactly
\* one Location (ChildOf) target, and no other entity slot has any.
C13_OneLocation ==
  /\ \A e \in ElevatorIds :
       Len(eChildOf[e]) = (IF eState[e] = "absent" THEN 0 ELSE 1)
  /\ \A p \in PassengerIds :
       Len(pChildOf[p]) = (IF pState[p] = "absent" THEN 0 ELSE 1)

\* the elevator has hopped, one passenger has boarded it and another has
\* left it for a floor
C13_Witness ==
  \E e \in ElevatorIds, p, r \in PassengerIds :
    /\ IndexOf(e) > 0
    /\ pState[p] = "exiting" /\ LocationOf(p) = FloorOf(e)
    /\ pState[r] = "riding" /\ LocationOf(r) = ElevatorEntity(e)

\* C14: a passenger becomes Exiting only from Riding, in a step before which
\* its elevator is Open on the passenger's destination floor; the step moves
\* its Location to that floor and attaches a fresh lock; every Exiting
\* passenger is located on its destination floor.
C14_ExitOnlyAtDestination ==
  [][\A p \in PassengerIds :
       /\ (pState'[p] = "exiting" /\ pState[p] # "exiting") =>
            /\ pState[p] = "riding"
            /\ \E e \in ElevatorIds :
                 /\ LocationOf(p) = ElevatorEntity(e)
                 /\ eState[e] = "open"
                 /\ FloorOf(e) = DestinationOf(p)
            /\ pChildOf'[p] = <<DestinationOf(p)>>
            /\ pDestinedTo'[p] = pDestinedTo[p]
            /\ pActing'[p] = setActing(Duration)
       /\ pState'[p] = "exiting" => pChildOf'[p] = pDestinedTo'[p]]_vars

\* a passenger has just left the Open elevator on its destination floor
C14_Witness ==
  \E p \in PassengerIds, e \in ElevatorIds :
    /\ pState[p] = "exiting" /\ pActing[p].held /\ hElapsed.p[p] = 0
    /\ LocationOf(p) = DestinationOf(p) /\ LocationOf(p) = FloorOf(e)
    /\ eState[e] = "open"

\* C15: a passenger becomes Boarding only from Waiting, unlocked, in a step
\* before which an Open elevator is on the passenger's floor; the step moves
\* its Location from the floor to that elevator and attaches a fresh lock; a
\* Waiting passenger that does not become Boarding stays Waiting where it is.
C15_BoardOnlyOpenElevator ==
  [][\A p \in PassengerIds :
       /\ (pState'[p] = "boarding" /\ pState[p] # "boarding") =>
            /\ pState[p] = "waiting" /\ ~pActing[p].held
            /\ LocationOf(p)[1] = "floor"
            /\ \E e \in ElevatorIds :
                 /\ FloorOf(e) = LocationOf(p)
                 /\ eState[e] = "open"
                 /\ pChildOf'[p] = <<ElevatorEntity(e)>>
            /\ pActing'[p] = setActing(Duration)
       /\ (pState[p] = "waiting" /\ pState'[p] # "boarding") =>
            /\ pState'[p] = "waiting"
            /\ pChildOf'[p] = pChildOf[p]]_vars

\* a passenger has just boarded the Open elevator that stands on a floor
\* above the first
C15_Witness ==
  \E p \in PassengerIds, e \in ElevatorIds :
    /\ pState[p] = "boarding" /\ pActing[p].held /\ hElapsed.p[p] = 0
    /\ LocationOf(p) = ElevatorEntity(e)
    /\ eState[e] = "open" /\ IndexOf(e) > 0

\* some passenger located in elevator e is in a state other than Riding
Occupied(e) ==
  \E p \in PassengerIds :
    /\ pState[p] \notin {"absent", "riding"}
    /\ LocationOf(p) = ElevatorEntity(e)

\* C16: an Open elevator with a passenger located in it that is not Riding
\* stays Open and unlocked; an Open elevator leaves Open only for Closing,
\* with a lock, and only when no such passenger is in it.
C16_OpenWaitsForPassengers ==
  [][\A e \in ElevatorIds :
       eState[e] = "open" =>
         /\ Occupied(e) => (eState'[e] = "open" /\ ~eActing'[e].held)
         /\ eState'[e] # "open" =>
              (eState'[e] = "closing" /\ eActing'[e].held /\ ~Occupied(e))]_vars

\* C17: the evaluation of an unlocked Closed or Moving elevator whose queue[0]
\* differs from the index i of its floor moves it to floor i+1 when
\* queue[0] > i and to floor i-1 when queue[0] < i, sets Moving, attaches a
\* lock and keeps the queue; no step moves an elevator by more than one floor.
C17_OneFloorPerHop ==
  [][\A e \in ElevatorIds :
       /\ (/\ EvaluatedClosedOrMoving(e)
           /\ ~eActing[e].held
           /\ eQueue[e] # <<>>
           /\ eQueue[e][1] # IndexOf(e))
          => /\ eChildOf'[e] = <<FloorEntity(IF eQueue[e][1] > IndexOf(e)
                                             THEN IndexOf(e) + 1
                                             ELSE IndexOf(e) - 1)>>
             /\ eState'[e] = "moving"
             /\ eActing'[e] = setActing(Duration)
             /\ eQueue'[e] = eQueue[e]
       /\ eState[e] # "absent" =>
            FloorIndex(FirstTarget(eChildOf'[e])) - IndexOf(e) \in {-1, 0, 1}]_vars

\* the elevator has just hopped and is still above the floor at the head of
\* its queue: its next evaluation hops down again
C17_Witness ==
  \E e \in ElevatorIds :
    /\ eState[e] = "moving" /\ eActing[e].held /\ hElapsed.e[e] = 0
    /\ eQueue[e] # <<>> /\ eQueue[e][1] < IndexOf(e)

\* queue a is a prefix of queue b
IsPrefix(a, b) == Len(a) <= Len(b) /\ SubSeq(b, 1, Len(a)) = a

\* C18: in every step a queue either keeps all its entries in their order
\* (entries may be added behind them), or loses exactly its head while the
\* elevator is on the floor of that index and becomes Opening.
C18_FifoQueue ==
  [][\A e \in ElevatorIds :
       \/ IsPrefix(eQueue[e], eQueue'[e])
       \/ /\ eQueue[e] # <<>>
          /\ eQueue'[e] = Tail(eQueue[e])
          /\ eQueue[e][1] = IndexOf(e)
          /\ eChildOf'[e] = eChildOf[e]
          /\ eState'[e] = "opening"]_vars

\* the head has just been popped from a queue that holds further calls
C18_Witness ==
  \E e \in ElevatorIds :
    /\ variant = "set"
    /\ eState[e] = "opening" /\ eActing[e].held /\ hElapsed.e[e] = 0
    /\ eQueue[e] # <<>>

C20_PushOnRiding ==
  [][/\ \A p \in PassengerIds :
          /\ (phase = "passenger" /\ pState[p] = "boarding" /\ ~pActing[p].held)
               => pState'[p] = "riding"
          /\ (pState'[p] = "riding" /\ pState[p] # "riding") =>
               /\ pState[p] = "boarding" /\ ~pActing[p].held
               /\ ~pActing'[p].held
               /\ pChildOf'[p] = pChildOf[p]
               /\ \E e \in ElevatorIds :
                    /\ LocationOf(p) = ElevatorEntity(e)
                    /\ InSeq(FloorIndex(DestinationOf(p)), eQueue'[e])
     /\ phase = "passenger" =>
          \A e \in ElevatorIds :
            /\ IsPrefix(eQueue[e], eQueue'[e])
            /\ Len(eQueue'[e]) - Len(eQueue[e]) <=
                 Cardinality({p \in PassengerIds :
                                /\ pState[p] = "boarding" /\ pState'[p] = "riding"
                                /\ LocationOf(p) = ElevatorEntity(e)})]_vars

\* the end of the tick whose gate call released a boarding lock: the
\* passenger is Riding without a lock and its destination is the queue's tail
C20_Witness ==
  \E p \in PassengerIds, e \in ElevatorIds :
    /\ phase = "acting"
    /\ pState[p] = "riding" /\ ~pActing[p].held /\ hElapsed.p[p] >= Duration
    /\ LocationOf(p) = ElevatorEntity(e)
    /\ eQueue[e] # <<>>
    /\ eQueue[e][Len(eQueue[e])] = FloorIndex(DestinationOf(p))

\* C21: a passenger comes into being only in state Waiting, located on a
\* floor, with a lock, and destined for another floor than the one it is on.
C21_SpawnedWaitingElsewhere ==
  [][\A p \in PassengerIds :
       /\ pState[p] = "absent" => pState'[p] \in {"absent", "waiting"}
       /\ (pState'[p] = "waiting" /\ pState[p] # "waiting") =>
            /\ \E f \in Floors : pChildOf'[p] = <<FloorEntity(f)>>
            /\ \E d \in Floors : pDestinedTo'[p] = <<FloorEntity(d)>>
            /\ pChildOf'[p] # pDestinedTo'[p]]_vars

\* a passenger has just been spawned on the top floor for the first floor
C21_Witness ==
  \E p \in PassengerIds :
    /\ pState[p] = "waiting" /\ pActing[p].held /\ hElapsed.p[p] = 0
    /\ LocationOf(p) = FloorEntity(NumFloors - 1)
    /\ DestinationOf(p) = FloorEntity(0)


\* C22: with two elevators only the first one returned by the Elevator query
\* is ever called: the second elevator's queue stays empty, it stays Closed
\* and unlocked on its floor, and no passenger is ever inside it.
C22_OnlyFirstElevatorServes ==
  \A e \in ElevatorIds \ {FirstElevator({x \in ElevatorIds : eState[x] # "absent"})} :
    eState[e] # "absent" =>
      /\ eQueue[e] = <<>>
      /\ eState[e] = "closed"
      /\ ~eActing[e].held
      /\ \A p \in PassengerIds : ~InSeq(ElevatorEntity(e), pChildOf[p])

\* elevator 1 has been called away and a passenger boards it on the floor
\* where elevator 2 stands
C22_Witness ==
  /\ eState[2] = "closed"
  /\ eState[1] = "open"
  /\ FloorOf(1) = FloorOf(2)
  /\ IndexOf(2) > 0
  /\ \E p \in PassengerIds : pState[p] = "boarding" /\ LocationOf(p) = ElevatorEntity(1)

\* the elevator pass that is about to run evaluates elevator e in state st
EvaluatedIn(e, st) ==
  /\ error = "none" /\ eState[e] = st /\ ~eActing[e].held
  /\ \/ variant = "set" /\ phase = "elevator"
     \/ variant = "obs" /\ phase = st

\* elevator e is about to attempt a hop and no floor lies one step toward
\* queue[0]
HopWithoutFloor(e) ==
  /\ EvaluatedIn(e, "closed") \/ EvaluatedIn(e, "moving")
  /\ eQueue[e] # <<>> /\ eQueue[e][1] \notin Floors
  /\ IndexOf(e) \in Floors
  /\ IndexOf(e) + (IF eQueue[e][1] > IndexOf(e) THEN 1 ELSE -1) \notin Floors

\* C23: a hop toward a queue entry that no floor has raises an error: the
\* elevator's state, floor, queue and lock are as before, and once the error
\* is raised no system runs any more.
C23_FailedHopThrows ==
  [][/\ error = "none"
     /\ \A e \in ElevatorIds :
          HopWithoutFloor(e) =>
            /\ error' # "none"
            /\ eState'[e] = eState[e]
            /\ eChildOf'[e] = eChildOf[e]
            /\ eQueue'[e] = eQueue[e]
            /\ eActing'[e] = eActing[e]]_vars

\* the elevator went up to the top floor after an entry above it and the next
\* hop failed, in either iteration
C23_Witness ==
  /\ error \in {"Next floor index not found", "Expected floor index to be found"}
  /\ eState[1] = "moving"
  /\ eQueue[1] # <<>> /\ eQueue[1][1] = NumFloors
  /\ IndexOf(1) = NumFloors - 1
  /\ hSpawned

\* the lifecycle pass is about to run
LifecycleStarts == error = "none" /\ phase = "lifecycle"

FloorExpected(e) ==
  /\ error = "none" /\ eState[e] # "absent"
  /\ \/ variant = "obs" /\ phase = "direction"
     \/ variant = "set" /\ phase = "elevator" /\ ~eActing[e].held

\* C25: when the elevator step that computes the direction finds an elevator
\* with no ChildOf target it raises an error.
C25_MissingFloorThrows ==
  [][\A e \in ElevatorIds :
       (FloorExpected(e) /\ eChildOf[e] = <<>>) => error' # "none"]_vars

\* the direction system of the observer iteration alone: it raises the error
\* and leaves the elevator as it was
DirectionSystemThrows ==
  [][\A e \in ElevatorIds :
       (variant = "obs" /\ FloorExpected(e) /\ eChildOf[e] = <<>>) =>
         /\ error' = "Expected elevator to be on a floor (ChildOf)"
         /\ eDir'[e] = eDir[e]
         /\ eState'[e] = eState[e]
         /\ eQueue'[e] = eQueue[e]]_vars

\* C26: a lock starts with completion 0; with a positive duration and
\* delta >= 0, an advance call never lowers the completion of a lock it leaves
\* attached, and that completion is in [0, 1) (0 <= n < duration).
C26_CompletionMonotone ==
  [][\A p \in PassengerIds :
       /\ (hOp'.op \in {"add", "set"} /\ pActing'[p] # pActing[p]) =>
            /\ pActing'[p].held
            /\ pActing'[p].kind = "num" /\ pActing'[p].n = 0
       /\ (/\ hOp'.op = "advance"
           /\ pActing[p].held /\ pActing[p].duration > 0
           /\ pActing'[p].held) =>
            /\ pActing'[p].duration = pActing[p].duration
            /\ pActing'[p].kind = "num"
            /\ pActing'[p].n >= pActing[p].n
            /\ 0 <= pActing'[p].n /\ pActing'[p].n < pActing'[p].duration]_vars

\* an advance call with a positive delta has raised the completion of a lock
\* that is still attached
C26_Witness ==
  /\ hOp.op = "advance" /\ hOp.delta > 0
  /\ \E p \in PassengerIds :
       /\ pActing[p].held /\ pActing[p].duration > 0
       /\ hOp.before[p].held /\ hOp.before[p].duration = pActing[p].duration
       /\ hOp.before[p].n < pActing[p].n
       /\ pActing[p].n < pActing[p].duration

\* C27: the Destination of a passenger is set when it is spawned and no step
\* changes it while the passenger lives (a step from Exiting to Waiting is the
\* destruction of one passenger and the spawn of another under the same id).
C27_DestinationFixed ==
  [][\A p \in PassengerIds :
       (/\ pState[p] # "absent" /\ pState'[p] # "absent"
        /\ ~(pState[p] = "exiting" /\ pState'[p] = "waiting")) =>
         pDestinedTo'[p] = pDestinedTo[p]]_vars

\* a passenger has gone all the way and stands, Exiting, on the floor its
\* Destination still names
C27_Witness ==
  \E p \in PassengerIds :
    /\ pState[p] = "exiting"
    /\ \E d \in Floors : pDestinedTo[p] = <<FloorEntity(d)>> /\ d > 0
    /\ LocationOf(p) = DestinationOf(p)

\* C28: an unlocked Closing elevator that is evaluated changes to Closed, its
\* queue is unchanged and the transition attaches no lock.
C28_ClosingToClosed ==
  [][\A e \in ElevatorIds :
       EvaluatedIn(e, "closing") =>
         /\ eState'[e] = "closed"
         /\ eQueue'[e] = eQueue[e]
         /\ ~eActing'[e].held]_vars

\* C29: an unlocked Opening elevator that is evaluated changes to Open, its
\* queue and floor are unchanged and the transition attaches no lock.
C29_OpeningToOpen ==
  [][\A e \in ElevatorIds :
       EvaluatedIn(e, "opening") =>
         /\ eState'[e] = "open"
         /\ eQueue'[e] = eQueue[e]
         /\ eChildOf'[e] = eChildOf[e]
         /\ ~eActing'[e].held]_vars

\* C30: updateElevatorMovingState changes an unlocked Moving elevator whose
\* queue is empty to Closed, on the same floor, with the queue still empty,
\* without a lock and without an error.
C30_MovingIdleCloses ==
  [][\A e \in ElevatorIds :
       (variant = "obs" /\ EvaluatedIn(e, "moving") /\ eQueue[e] = <<>>) =>
         /\ eState'[e] = "closed"
         /\ eChildOf'[e] = eChildOf[e]
         /\ eQueue'[e] = <<>>
         /\ ~eActing'[e].held
         /\ error' = "none"]_vars

\* the moving system is about to evaluate a Moving elevator with an empty
\* queue above the first floor
C30_Witness ==
  /\ variant = "obs" /\ EvaluatedIn(1, "moving")
  /\ eQueue[1] = <<>>
  /\ IndexOf(1) > 0

\* C31: in the setElevator iteration a Moving elevator always has a queue
\* entry, so the Moving branch of updateElevatorState always has a head to
\* compare with the floor index.
C31_MovingHasQueue ==
  \A e \in ElevatorIds :
    (variant = "set" /\ eState[e] = "moving") =>
      /\ eQueue[e] # <<>>
      /\ QueueHead(eQueue[e]) \in Floors

\* the Moving branch is about to be evaluated after one hop, with the head
\* still a floor away
C31_Witness ==
  /\ variant = "set" /\ EvaluatedIn(1, "moving")
  /\ eQueue[1] # <<>>
  /\ IndexOf(1) = NumFloors - 2 /\ eQueue[1][1] = NumFloors - 1

\* the passenger pass has run: the tick is over
TickOver == phase = "acting" /\ hSpawned

\* C32: in the setElevator iteration, at the end of a tick in which the
\* elevator is not Open every passenger located in it is Riding, and no
\* passenger is Boarding in an elevator that is Closing, Closed or Moving.
C32_OnlyRidersBehindDoors ==
  \A e \in ElevatorIds, p \in PassengerIds :
    (variant = "set" /\ eState[e] # "absent" /\ LocationOf(p) = ElevatorEntity(e)) =>
      /\ (TickOver /\ eState[e] # "open") => pState[p] = "riding"
      /\ pState[p] = "boarding" => eState[e] \notin {"closing", "closed", "moving"}

\* a tick ends with the elevator Moving and a Riding passenger in it
C32_Witness ==
  /\ variant = "set" /\ TickOver
  /\ eState[1] = "moving"
  /\ \E p \in PassengerIds :
       pState[p] = "riding" /\ LocationOf(p) = ElevatorEntity(1)

\* the call of a passenger Waiting on floor o is pending, or the elevator it
\* was made to is opening or open on that floor
CallPending(e, o) ==
  \/ InSeq(o, eQueue[e])
  \/ IndexOf(e) = o /\ eState[e] \in {"opening", "open"}

\* C33: in the setElevator iteration, at the end of every tick every Waiting
\* passenger on a floor has that floor's index in the elevator's queue, or the
\* elevator is Opening or Open on that floor.
C33_NoLostCall ==
  (variant = "set" /\ phase = "acting") =>
    \A p \in PassengerIds :
      pState[p] = "waiting" =>
        \E o \in Floors :
          /\ LocationOf(p) = FloorEntity(o)
          /\ CallPending(1, o)

\* a tick ends with a passenger Waiting on the floor where the elevator has
\* arrived and taken the call off its queue
C33_Witness ==
  /\ variant = "set" /\ phase = "acting"
  /\ eState[1] = "opening" /\ IndexOf(1) > 0
  /\ ~InSeq(IndexOf(1), eQueue[1])
  /\ \E p \in PassengerIds : pState[p] = "waiting" /\ LocationOf(p) = FloorOf(1)

\* C34: from the seeded world every queue entry is the index of a floor, the
\* elevator stands on exactly one floor, and the hop never raises its
\* floor-not-found error, in either iteration.
C34_QueueAndFloorInRange ==
  \A e \in ElevatorIds :
    eState[e] # "absent" =>
      /\ \A i \in 1 .. Len(eQueue[e]) : eQueue[e][i] \in Floors
      /\ \E f \in Floors : eChildOf[e] = <<FloorEntity(f)>>
      /\ error = "none"

\* the elevator has climbed to the top floor and a call from the first floor
\* is pending: the next hops go down through every floor
C34_Witness ==
  /\ eState[1] = "closed" /\ ~eActing[1].held
  /\ IndexOf(1) = NumFloors - 1
  /\ eQueue[1] # <<>> /\ eQueue[1][1] = 0

\* C35: the elevator's Location changes only in an evaluation that starts in
\* Closed or Moving and ends in Moving, locked; an elevator that is Opening,
\* Open or Closing, before or after a step, keeps its floor.
C35_MovesOnlyBehindClosedDoors ==
  [][\A e \in ElevatorIds :
       eChildOf'[e] # eChildOf[e] =>
         /\ EvaluatedIn(e, "closed") \/ EvaluatedIn(e, "moving")
         /\ eState'[e] = "moving"
         /\ eActing'[e] = setActing(Duration)]_vars

\* the elevator has just hopped from Moving to Moving
C35_Witness ==
  /\ eState[1] = "moving" /\ eActing[1].held /\ hElapsed.e[1] = 0
  /\ IndexOf(1) = NumFloors - 1
  /\ eQueue[1] # <<>> /\ eQueue[1][1] = NumFloors - 1

\* C36: a passenger's state changes only from Waiting to Boarding, from
\* Boarding to Riding and from Riding to Exiting; it is destroyed only from
\* Exiting and without a lock (its id is then free or taken by a new Waiting
\* passenger), and a new passenger starts Waiting.
C36_PassengerStateOrder ==
  [][\A p \in PassengerIds :
       pState'[p] # pState[p] =>
         \/ pState[p] = "absent" /\ pState'[p] = "waiting"
         \/ pState[p] = "waiting" /\ pState'[p] = "boarding"
         \/ pState[p] = "boarding" /\ pState'[p] = "riding"
         \/ pState[p] = "riding" /\ pState'[p] = "exiting"
         \/ /\ pState[p] = "exiting" /\ ~pActing[p].held
            /\ LifecycleStarts
            /\ pState'[p] \in {"absent", "waiting"}]_vars

\* a passenger that has gone through every state stands Exiting on its
\* destination floor, its lock released, when the lifecycle pass starts
C36_Witness ==
  /\ LifecycleStarts
  /\ \E p \in PassengerIds :
       /\ pState[p] = "exiting" /\ ~pActing[p].held
       /\ hElapsed.p[p] >= Duration
       /\ LocationOf(p) = DestinationOf(p)

NoDuplicates(q) == \A i, j \in 1 .. Len(q) : q[i] = q[j] => i = j

\* the floor indices pushed by the step: the origins of the passengers it
\* spawns and the destinations of the passengers it turns from Boarding to
\* Riding
Pushed ==
  {FloorIndex(FirstTarget(pChildOf'[p])) :
     p \in {x \in PassengerIds : pState[x] \in {"absent", "exiting"} /\ pState'[x] = "waiting"}}
  \cup
  {FloorIndex(FirstTarget(pDestinedTo'[p])) :
     p \in {x \in PassengerIds : pState[x] = "boarding" /\ pState'[x] = "riding"}}

\* C37: the queue setElevator writes holds no floor index twice; a lifecycle
\* or passenger step keeps the queue it found as a prefix and adds exactly the
\* pushed indices that were not in it, so pushing an index that is already
\* queued changes nothing and every index stays where it first occurred.
C37_PushIdempotent ==
  [][variant = "set" =>
       /\ NoDuplicates(eQueue'[1])
       /\ phase \in {"lifecycle", "passenger"} =>
            /\ IsPrefix(eQueue[1], eQueue'[1])
            /\ {eQueue'[1][i] : i \in 1 .. Len(eQueue'[1])} =
                 {eQueue[1][i] : i \in 1 .. Len(eQueue[1])} \cup Pushed
            /\ (Pushed \subseteq {eQueue[1][i] : i \in 1 .. Len(eQueue[1])}) =>
                 eQueue'[1] = eQueue[1]]_vars

\* the lifecycle pass has spawned two passengers on one floor above the first
\* while the idle elevator stood on the first floor: two pushes of one index,
\* one entry
C37_Witness ==
  /\ variant = "set" /\ phase = "passenger"
  /\ eState[1] = "closed" /\ ~eActing[1].held /\ IndexOf(1) = 0
  /\ \E o \in Floors \ {0} :
       /\ eQueue[1] = <<o>>
       /\ \E p, q \in PassengerIds :
            /\ p # q
            /\ pState[p] = "waiting" /\ LocationOf(p) = FloorEntity(o)
            /\ pState[q] = "waiting" /\ LocationOf(q) = FloorEntity(o)

\* C38: the lifecycle pass and the passenger pass, which push onto the
\* elevator's queue, leave the elevator's state, Location and lock (presence,
\* duration and completion) as they were, whether it is locked or not.
C38_PushLeavesElevator ==
  [][\A e \in ElevatorIds :
       phase \in {"lifecycle", "passenger"} =>
         /\ eState'[e] = eState[e]
         /\ eChildOf'[e] = eChildOf[e]
         /\ eActing'[e] = eActing[e]]_vars

\* a passenger has just been spawned and its origin pushed while the elevator
\* was Moving under a lock that had run for some time
C38_Witness ==
  /\ phase = "passenger"
  /\ eState[1] = "moving" /\ eActing[1].held /\ eActing[1].n > 0
  /\ \E p \in PassengerIds :
       /\ pState[p] = "waiting" /\ pActing[p].held /\ hElapsed.p[p] = 0
       /\ eQueue[1] # <<>>
       /\ LocationOf(p) = FloorEntity(eQueue[1][Len(eQueue[1])])

\* C39: when the lifecycle pass raises 'Expected at least 1 elevator' the
\* world holds the same passengers as before the pass.
C39_FailedSpawnLeavesNoPassenger ==
  [][(error = "none" /\ error' = "Expected at least 1 elevator") =>
       /\ pState' = pState
       /\ pChildOf' = pChildOf
       /\ pDestinedTo' = pDestinedTo
       /\ pActing' = pActing]_vars
====
